---------------------------- MODULE Spec2Model ----------------------------
(***************************************************************************)
(* Model of three components of the hub.                                   *)
(* homeassistant/components/stt/__init__.py: the speech-to-text            *)
(* component's start-up (async_setup), the provider capability check       *)
(* (Provider.check_metadata) and the HTTP view (SpeechToTextView).         *)
(* homeassistant/components/lovelace/__init__.py: the dashboards map and   *)
(* the panels of the YAML and storage dashboards.                          *)
(* homeassistant/components/homekit_controller/media_player.py: the play,  *)
(* pause and stop commands of the HomeKit television entity.               *)
(* Each component has its own specification; the variables of the other    *)
(* components stay at their not-loaded values.                             *)
(*                                                                         *)
(* Python str values that the code takes apart (the X-Speech-Content       *)
(* header, its segments, keys and values) are sequences of one-character   *)
(* strings, so that split/partition/int are computed as Python computes    *)
(* them.  Opaque names (platform names, recognised text) are TLA+ strings. *)
(* An optional value (a header that may be absent, Optional[str]) is a     *)
(* sequence of length 0 (None / absent) or 1.                              *)
(***************************************************************************)
EXTENDS Integers, Sequences, FiniteSets, TLC

VARIABLES
    tasks,           \* setup_tasks: the coroutines async_setup_platform(p_type, ..)
    errors,          \* the p_type of each _LOGGER.error / _LOGGER.exception record
    providers,       \* the dict `providers` of async_setup, shared with the view
    viewRegistered,  \* hass.http.register_view(...) has been called
    setupResult,     \* <<>> while async_setup runs, <<TRUE>> once it returned True
    reqs,            \* requests suspended in `await async_process_audio_stream`
    last,            \* the request whose handler finished most recently
    chk,             \* one direct call of Provider.check_metadata
    dashboards,      \* hass.data[DOMAIN]["dashboards"]: url path -> config object
    panels,          \* the frontend's registered panels: url path -> panel
    yaml_dashboards, \* config[DOMAIN][CONF_DASHBOARDS] keys the loop has yet to take
    collection,      \* dashboards_collection: item id -> the item's url_path
    lovelace_pc,     \* where lovelace's async_setup is: "yaml", "listening", "safe"
    change,          \* the dashboard operation that ran most recently
    at_setup,        \* dashboards and panels as async_setup left them
    tv               \* one HomeKitTelevision entity and its last command

sttVars == <<tasks, errors, providers, viewRegistered, setupResult, reqs, last, chk>>

lovelaceVars ==
    <<dashboards, panels, yaml_dashboards, collection, lovelace_pc, change, at_setup>>

tvVars == <<tv>>

vars == <<sttVars, lovelaceVars, tvVars>>

---------------------------------------------------------------------------
(* Bounds of the model.                                                    *)

MaxEntries == 2     \* configured stt platform entries
MaxInFlight == 2    \* requests handled concurrently

---------------------------------------------------------------------------
(* The other components are not loaded while one component runs.           *)

LovelaceNotSetUp ==
    /\ dashboards = <<>>
    /\ panels = <<>>
    /\ yaml_dashboards = {}
    /\ collection = <<>>
    /\ lovelace_pc = "unloaded"
    /\ change = <<>>
    /\ at_setup = <<>>

TvNotSetUp == tv = <<>>

---------------------------------------------------------------------------
(* Python strings.                                                         *)

s_lanugage   == <<"l","a","n","u","g","a","g","e">>
s_language   == <<"l","a","n","g","u","a","g","e">>
s_format     == <<"f","o","r","m","a","t">>
s_codec      == <<"c","o","d","e","c">>
s_codecs     == <<"c","o","d","e","c","s">>
s_bitrate    == <<"b","i","t","r","a","t","e">>
s_samplerate == <<"s","a","m","p","l","e","r","a","t","e">>
s_audio      == <<"a","u","d","i","o">>
s_wav        == <<"w","a","v">>
s_ogg        == <<"o","g","g">>
s_pcm        == <<"p","c","m">>
s_opus       == <<"o","p","u","s">>
s_de_de      == <<"d","e","_","d","e">>
s_en         == <<"e","n">>
s_16000      == <<"1","6","0","0","0">>
s_8000       == <<"8","0","0","0">>
s_16         == <<"1","6">>
s_8          == <<"8">>

Range(f) == {f[i] : i \in DOMAIN f}

\* str.find(c) + 1: the position of the first c in s, 0 when there is none.
Find(s, c) ==
    IF \E i \in 1..Len(s) : s[i] = c
    THEN CHOOSE i \in 1..Len(s) : s[i] = c /\ \A j \in 1..(i-1) : s[j] # c
    ELSE 0

\* s.split(c) for a one-character separator: always at least one piece.
RECURSIVE Split(_, _)
Split(s, c) ==
    LET i == Find(s, c)
    IN  IF i = 0 THEN <<s>>
        ELSE <<SubSeq(s, 1, i-1)>> \o Split(SubSeq(s, i+1, Len(s)), c)

\* s.partition(c)[0]: the part before the first c, all of s when there is none.
PartitionHead(s, c) ==
    LET i == Find(s, c) IN IF i = 0 THEN s ELSE SubSeq(s, 1, i-1)

\* s.partition(c)[2]: the part after the first c, "" when there is none.
PartitionTail(s, c) ==
    LET i == Find(s, c) IN IF i = 0 THEN <<>> ELSE SubSeq(s, i+1, Len(s))

\* str.strip() for the blank.
RECURSIVE Strip(_)
Strip(s) ==
    IF s = <<>> THEN s
    ELSE IF Head(s) = " " THEN Strip(Tail(s))
    ELSE IF s[Len(s)] = " " THEN Strip(SubSeq(s, 1, Len(s)-1))
    ELSE s

Digits == {"0","1","2","3","4","5","6","7","8","9"}

DigitVal(c) ==
    CASE c = "0" -> 0 [] c = "1" -> 1 [] c = "2" -> 2 [] c = "3" -> 3
      [] c = "4" -> 4 [] c = "5" -> 5 [] c = "6" -> 6 [] c = "7" -> 7
      [] c = "8" -> 8 [] c = "9" -> 9

\* The body of a decimal literal int() accepts: digits, single underscores
\* only between digits.
IsDigitString(s) ==
    /\ Len(s) >= 1
    /\ s[1] \in Digits
    /\ s[Len(s)] \in Digits
    /\ \A i \in 1..Len(s) : s[i] \in Digits \cup {"_"}
    /\ \A i \in 1..(Len(s)-1) : ~(s[i] = "_" /\ s[i+1] = "_")

RECURSIVE DigitsValue(_, _)
DigitsValue(s, acc) ==
    IF s = <<>> THEN acc
    ELSE IF Head(s) = "_" THEN DigitsValue(Tail(s), acc)
    ELSE DigitsValue(Tail(s), acc * 10 + DigitVal(Head(s)))

\* int(s) of a str: surrounding blanks are dropped, one sign is allowed.
\* <<>> stands for ValueError, <<n>> for the value n.
PyInt(s) ==
    LET t == Strip(s)
        signed == t # <<>> /\ Head(t) \in {"+", "-"}
        body == IF signed THEN Tail(t) ELSE t
    IN  IF ~IsDigitString(body) THEN <<>>
        ELSE IF signed /\ Head(t) = "-" THEN <<0 - DigitsValue(body, 0)>>
        ELSE <<DigitsValue(body, 0)>>

---------------------------------------------------------------------------
(* SpeechMetadata and the header.                                          *)

\* The attributes of the attrs class SpeechMetadata, as keyword names.
FieldNames == {s_lanugage, s_format, s_codec, s_bitrate, s_samplerate}

\* SpeechMetadata(**args): the generated __init__ takes exactly the five
\* attribute names as keywords (anything else, or a missing one, is a
\* TypeError) and runs converter=int on bitrate and samplerate (ValueError).
SpeechMetadata(args) ==
    IF DOMAIN args # FieldNames THEN [err |-> "TypeError", md |-> <<>>]
    ELSE LET b == PyInt(args[s_bitrate])
             r == PyInt(args[s_samplerate])
         IN  IF b = <<>> \/ r = <<>> THEN [err |-> "ValueError", md |-> <<>>]
             ELSE [err |-> "none",
                   md  |-> << [lanugage   |-> args[s_lanugage],
                               format     |-> args[s_format],
                               codec      |-> args[s_codec],
                               bitrate    |-> b[1],
                               samplerate |-> r[1]] >>]

\* `map(str.strip, data)`: the map object is never consumed and its result
\* is dropped, so data keeps its blanks.
MapStripDiscarded(data) == data

\* The loop `for value in data: args[key] = value`: a later segment with the
\* same key overwrites an earlier one.
RECURSIVE ConvertHeaderData(_, _)
ConvertHeaderData(data, args) ==
    IF data = <<>> THEN args
    ELSE LET value == Head(data)
             k == PartitionHead(value, "=")
             x == PartitionTail(value, "/")
         IN  ConvertHeaderData(Tail(data),
                 [kk \in DOMAIN args \cup {k} |-> IF kk = k THEN x ELSE args[kk]])

\* The body of SpeechToTextView._metadat_from_header; header is <<>> when
\* the request carries no X-Speech-Content (request.headers[...] raises
\* KeyError).
ExtractMetadata(header) ==
    IF header = <<>> THEN [err |-> "KeyError", md |-> <<>>]
    ELSE LET data == MapStripDiscarded(Split(header[1], ";"))
         IN  SpeechMetadata(ConvertHeaderData(data, <<>>))

---------------------------------------------------------------------------
(* Providers.                                                              *)

Platforms == {"demo", "cloud"}

\* The capability lists a platform's engine declares (the abstract
\* properties supported_languages .. supported_samplerates).  The str-mixin
\* enums AudioFormats/AudioCodecs and int-mixin enums AudioBitrates/
\* AudioSamplerates compare equal to their plain values.
PlatformCaps(p) ==
    IF p = "demo"
    THEN [supported_languages   |-> <<s_en, s_de_de>>,
          supported_formats     |-> <<s_wav>>,
          supported_codecs      |-> <<s_pcm>>,
          supported_bitrates    |-> <<16>>,
          supported_samplerates |-> <<16000, 44100>>]
    ELSE [supported_languages   |-> <<s_en>>,
          supported_formats     |-> <<s_wav, s_ogg>>,
          supported_codecs      |-> <<s_pcm, s_opus>>,
          supported_bitrates    |-> <<8, 16>>,
          supported_samplerates |-> <<8000, 16000>>]

\* A Provider instance as async_get_engine returns it: name is None (<<>>)
\* until async_setup_platform sets it.
NewProvider(p) ==
    [name |-> <<>>] @@ PlatformCaps(p)

\* The five assert statements of check_metadata, in order.
MetadataAsserts(provider, metadata) ==
    /\ metadata.lanugage   \in Range(provider.supported_languages)
    /\ metadata.format     \in Range(provider.supported_formats)
    /\ metadata.codec      \in Range(provider.supported_codecs)
    /\ metadata.bitrate    \in Range(provider.supported_bitrates)
    /\ metadata.samplerate \in Range(provider.supported_samplerates)

\* Provider.check_metadata: an AssertionError is caught and becomes False.
check_metadata_without_samplerate(provider, metadata) ==
    /\ metadata.lanugage   \in Range(provider.supported_languages)
    /\ metadata.format     \in Range(provider.supported_formats)
    /\ metadata.codec      \in Range(provider.supported_codecs)
    /\ metadata.bitrate    \in Range(provider.supported_bitrates)

check_metadata(provider, metadata) ==
    IF MetadataAsserts(provider, metadata) THEN TRUE ELSE FALSE

---------------------------------------------------------------------------
(* Request inputs.                                                         *)

\* The header of the docstring of _metadat_from_header:
\* format=audio/wav; codecs=audio/pcm; samplerate=16000; bitrate=16; language=de_de
DocHeader ==
    <<"f","o","r","m","a","t","=","a","u","d","i","o","/","w",
       "a","v",";"," ","c","o","d","e","c","s","=","a","u","d",
       "i","o","/","p","c","m",";"," ","s","a","m","p","l","e",
       "r","a","t","e","=","1","6","0","0","0",";"," ","b","i",
       "t","r","a","t","e","=","1","6",";"," ","l","a","n","g",
       "u","a","g","e","=","d","e","_","d","e">>

Seg(key, pre, val) == key \o <<"=">> \o pre \o val

\* A header of five segments.  sep is the text between segments, codecKey
\* and langKey the keys used for codec and language, and slashed says
\* whether the samplerate, bitrate and language values carry a leading "/".
HeaderOf(style, v) ==
    LET pre == IF style.slashed THEN <<"/">> ELSE <<>>
        mime == s_audio \o <<"/">>
    IN  Seg(s_format, mime, v.format) \o style.sep
        \o Seg(style.codecKey, mime, v.codec) \o style.sep
        \o Seg(s_samplerate, pre, v.samplerate) \o style.sep
        \o Seg(s_bitrate, pre, v.bitrate) \o style.sep
        \o Seg(style.langKey, pre, v.language)

\* The style of the docstring, and the one style whose keys are exactly the
\* attribute names and whose every value follows a "/".
DocStyle ==
    [sep |-> <<";", " ">>, codecKey |-> s_codecs, langKey |-> s_language,
     slashed |-> FALSE]
AttrStyle ==
    [sep |-> <<";">>, codecKey |-> s_codec, langKey |-> s_lanugage,
     slashed |-> TRUE]

DocValues ==
    [format |-> s_wav, codec |-> s_pcm, samplerate |-> s_16000,
     bitrate |-> s_16, language |-> s_de_de]

\* The docstring's values and the values that differ from them in one field.
ValueChoices ==
    {DocValues,
     [DocValues EXCEPT !.format = s_ogg],
     [DocValues EXCEPT !.codec = s_opus],
     [DocValues EXCEPT !.samplerate = s_8000],
     [DocValues EXCEPT !.bitrate = s_8],
     [DocValues EXCEPT !.language = s_en]}

AttrHeader == HeaderOf(AttrStyle, DocValues)

\* AttrStyle changed in one respect.
NearStyles ==
    {[AttrStyle EXCEPT !.sep = <<";", " ">>],
     [AttrStyle EXCEPT !.codecKey = s_codecs],
     [AttrStyle EXCEPT !.langKey = s_language],
     [AttrStyle EXCEPT !.slashed = FALSE]}

\* A bitrate segment whose value is no integer, followed by a full header.
OverriddenHeader ==
    Seg(s_bitrate, <<"/">>, <<"1","x">>) \o <<";">> \o AttrHeader

\* Headers that are malformed in one place.
OddHeaders ==
    {AttrHeader \o <<";">>,
     s_wav,
     HeaderOf(AttrStyle, [DocValues EXCEPT !.bitrate = <<"1","x">>]),
     OverriddenHeader,
     Seg(s_format, <<"/">>, s_wav) \o <<";">> \o Seg(s_codec, <<"/">>, s_pcm)}

HeaderTexts ==
    {DocHeader}
    \cup {HeaderOf(AttrStyle, v) : v \in ValueChoices}
    \cup {HeaderOf(st, DocValues) : st \in NearStyles}
    \cup OddHeaders

\* request.headers: X-Speech-Content absent (<<>>) or present.
Headers == {<<>>} \cup {<<h>> : h \in HeaderTexts}

\* SpeechToTextView._metadat_from_header on each header a request can
\* carry, computed once.
ExtractedMetadata == [h \in Headers |-> ExtractMetadata(h)]

MetadatFromHeader(header) == ExtractedMetadata[header]

\* The {provider} part of the url.
Names == Platforms \cup {"other"}

\* What async_process_audio_stream returns: None (<<>>) or a str.
Texts == {<<>>, <<"">>, <<"hello">>}

---------------------------------------------------------------------------
(* Start-up: async_setup.                                                  *)

Entries == DOMAIN tasks

\* Where a task async_setup_platform(p_type, p_config) stands: before
\* `await async_prepare_setup_platform`, before `await async_get_engine`,
\* or returned: "ok" after line 49, "failed" by one of the three early
\* returns (no platform, no engine, an exception).
TaskFinal == {"failed", "ok"}

NewTask(p_type) == [p_type |-> p_type, pc |-> "prepare", engine_calls |-> 0]

\* What the awaited async_get_engine can do: return a provider, return
\* None, or raise.
EngineOutcomes == {"provider", "none", "raise"}

\* Lines 40-52 of async_setup_platform after async_get_engine: the dict
\* `providers`, the error records and the task's final position.
SetupPlatformEngine_registers_before_raise(provs, errs, p_type, outcome) ==
    IF outcome \in {"provider", "raise"}
    THEN [providers |->
              [n \in DOMAIN provs \cup {p_type} |->
                  IF n = p_type
                  THEN [NewProvider(p_type) EXCEPT !.name = <<p_type>>]
                  ELSE provs[n]],
          errors |-> IF outcome = "raise" THEN Append(errs, p_type) ELSE errs,
          pc |-> IF outcome = "raise" THEN "failed" ELSE "ok"]
    ELSE [providers |-> provs, errors |-> Append(errs, p_type),
          pc |-> "failed"]

SetupPlatformEngine(provs, errs, p_type, outcome) ==
    IF outcome = "raise"
    THEN [providers |-> provs, errors |-> Append(errs, p_type),
          pc |-> "failed"]
    ELSE IF outcome = "none"
    THEN [providers |-> provs, errors |-> Append(errs, p_type),
          pc |-> "failed"]
    ELSE [providers |->
              [n \in DOMAIN provs \cup {p_type} |->
                  IF n = p_type
                  THEN [NewProvider(p_type) EXCEPT !.name = <<p_type>>]
                  ELSE provs[n]],
          errors |-> errs,
          pc |-> "ok"]

\* `if setup_tasks: await asyncio.wait(setup_tasks)` lets async_setup go on
\* once every task is done (at once when there is no task).
SetupTasksDone_first_completed ==
    Entries = {} \/ \E e \in Entries : tasks[e].pc \in TaskFinal

SetupTasksDone ==
    \A e \in Entries : tasks[e].pc \in TaskFinal

StillRunning(t) == t.pc \notin TaskFinal

\* platform = await async_prepare_setup_platform(...); None ends the task.
PreparePlatform(e) ==
    /\ tasks[e].pc = "prepare"
    /\ \E found \in BOOLEAN :
           tasks' = [tasks EXCEPT
                        ![e].pc = IF found THEN "engine" ELSE "failed"]
    /\ UNCHANGED <<lovelaceVars, tvVars>>
    /\ UNCHANGED <<errors, providers, viewRegistered, setupResult, reqs,
                   last, chk>>

\* provider = await platform.async_get_engine(...) and the rest of the task.
GetEngine(e) ==
    /\ tasks[e].pc = "engine"
    /\ \E outcome \in EngineOutcomes :
           LET r == SetupPlatformEngine(providers, errors, tasks[e].p_type,
                                        outcome)
           IN  /\ providers' = r.providers
               /\ errors' = r.errors
               /\ tasks' = [tasks EXCEPT
                               ![e].pc = r.pc,
                               ![e].engine_calls = tasks[e].engine_calls + 1]
    /\ UNCHANGED <<lovelaceVars, tvVars>>
    /\ UNCHANGED <<viewRegistered, setupResult, reqs, last, chk>>

\* hass.http.register_view(SpeechToTextView(providers)); return True.  The
\* view keeps the dict itself (self.providers = providers), not a copy.
\* setup_tasks is a local of async_setup: the finished coroutines are gone
\* when it returns; one that had not finished would stay with the loop.
RegisterView ==
    /\ setupResult = <<>>
    /\ SetupTasksDone
    /\ viewRegistered' = TRUE
    /\ setupResult' = <<TRUE>>
    /\ tasks' = SelectSeq(tasks, StillRunning)
    /\ UNCHANGED <<lovelaceVars, tvVars>>
    /\ UNCHANGED <<errors, providers, reqs, last, chk>>

---------------------------------------------------------------------------
(* The view: SpeechToTextView.post and .get.                               *)

Slots == 1..MaxInFlight

\* A request and what its handler has done so far.  status 0: no response
\* yet.  stream stands for request.content, one per request being handled.
Request(method, name, header, stream) ==
    [method |-> method, name |-> name, header |-> header, stream |-> stream,
     err |-> "none", md |-> <<>>, calls |-> <<>>, returned |-> <<>>,
     status |-> 0, text |-> <<>>, json |-> <<>>]

Idle == Request("none", "", <<>>, 0)

\* post() up to `await stt_provider.async_process_audio_stream(...)`.
\* HTTPNotFound is a 404 response, HTTPNotImplemented a 501 response; any
\* other exception leaving the handler is a 500 response.
PostHandler_parses_first(provs, name, header, stream) ==
    LET r == Request("POST", name, header, stream)
        m == MetadatFromHeader(header)
    IN  IF m.err # "none"
        THEN [r EXCEPT !.status = 500, !.err = m.err]
        ELSE IF name \notin DOMAIN provs
        THEN [r EXCEPT !.status = 404, !.err = "HTTPNotFound"]
        ELSE IF ~check_metadata(provs[name], m.md[1])
        THEN [r EXCEPT !.status = 501, !.err = "HTTPNotImplemented",
                       !.md = m.md]
        ELSE [r EXCEPT !.md = m.md,
                       !.calls = <<[provider |-> provs[name],
                                    metadata |-> m.md[1],
                                    stream |-> stream]>>]

PostHandler_ignores_check(provs, name, header, stream) ==
    LET r == Request("POST", name, header, stream)
    IN  IF name \notin DOMAIN provs
        THEN [r EXCEPT !.status = 404, !.err = "HTTPNotFound"]
        ELSE LET m == MetadatFromHeader(header)
             IN  IF m.err # "none"
                 THEN [r EXCEPT !.status = 500, !.err = m.err]
                 ELSE [r EXCEPT !.md = m.md,
                                !.calls = <<[provider |-> provs[name],
                                             metadata |-> m.md[1],
                                             stream |-> stream]>>]

PostHandler(provs, name, header, stream) ==
    LET r == Request("POST", name, header, stream)
    IN  IF name \notin DOMAIN provs
        THEN [r EXCEPT !.status = 404, !.err = "HTTPNotFound"]
        ELSE LET m == MetadatFromHeader(header)
             IN  IF m.err # "none"
                 THEN [r EXCEPT !.status = 500, !.err = m.err]
                 ELSE IF ~check_metadata(provs[name], m.md[1])
                 THEN [r EXCEPT !.status = 501, !.err = "HTTPNotImplemented",
                                !.md = m.md]
                 ELSE [r EXCEPT !.md = m.md,
                                !.calls = <<[provider |-> provs[name],
                                             metadata |-> m.md[1],
                                             stream |-> stream]>>]

\* What the awaited async_process_audio_stream can do: raise, or return
\* None or a str.
ProviderOutcomes ==
    {[raised |-> TRUE, value |-> <<>>]}
    \cup {[raised |-> FALSE, value |-> t] : t \in Texts}

\* post() after the await: `if text is None` -> 400, else 200 with the text.
PostAfterAwait_falsy_text(r, outcome) ==
    IF outcome.raised THEN [r EXCEPT !.status = 500, !.err = "ProviderError"]
    ELSE IF outcome.value = <<>> \/ outcome.value = <<"">>
    THEN [r EXCEPT !.status = 400, !.returned = <<outcome.value>>]
    ELSE [r EXCEPT !.status = 200, !.returned = <<outcome.value>>,
                   !.text = outcome.value]

PostAfterAwait(r, outcome) ==
    IF outcome.raised THEN [r EXCEPT !.status = 500, !.err = "ProviderError"]
    ELSE IF outcome.value = <<>>
    THEN [r EXCEPT !.status = 400, !.returned = <<outcome.value>>]
    ELSE [r EXCEPT !.status = 200, !.returned = <<outcome.value>>,
                   !.text = outcome.value]

\* get(): 404, or 200 with the dict handed to self.json_message (json); how
\* json_message serialises it is the host framework's business.
GetHandler_swapped_keys(provs, name) ==
    LET r == Request("GET", name, <<>>, 0)
    IN  IF name \notin DOMAIN provs
        THEN [r EXCEPT !.status = 404, !.err = "HTTPNotFound"]
        ELSE LET p == provs[name]
             IN  [r EXCEPT !.status = 200,
                           !.json = <<[languages  |-> p.supported_languages,
                                       formats    |-> p.supported_formats,
                                       codecs     |-> p.supported_codecs,
                                       samplerate |-> p.supported_bitrates,
                                       bitrate    |-> p.supported_samplerates]>>]

GetHandler(provs, name) ==
    LET r == Request("GET", name, <<>>, 0)
    IN  IF name \notin DOMAIN provs
        THEN [r EXCEPT !.status = 404, !.err = "HTTPNotFound"]
        ELSE LET p == provs[name]
             IN  [r EXCEPT !.status = 200,
                           !.json = <<[languages  |-> p.supported_languages,
                                       formats    |-> p.supported_formats,
                                       codecs     |-> p.supported_codecs,
                                       samplerate |-> p.supported_samplerates,
                                       bitrate    |-> p.supported_bitrates]>>]

\* A POST arrives and its handler runs to its response or to its await.
\* The request takes the first free place among those handled at a time.
Post(s) ==
    /\ viewRegistered
    /\ reqs[s] = Idle
    /\ \A t \in 1..(s-1) : reqs[t] # Idle
    /\ \E name \in Names, header \in Headers :
           LET r == PostHandler(providers, name, header, s)
           IN  IF r.status = 0
               THEN reqs' = [reqs EXCEPT ![s] = r] /\ UNCHANGED last
               ELSE last' = r /\ UNCHANGED reqs
    /\ UNCHANGED <<lovelaceVars, tvVars>>
    /\ UNCHANGED <<tasks, errors, providers, viewRegistered, setupResult, chk>>

\* The provider's coroutine of a suspended POST ends and post() finishes.
PostResume(s) ==
    /\ reqs[s] # Idle
    /\ \E outcome \in ProviderOutcomes :
           last' = PostAfterAwait(reqs[s], outcome)
    /\ reqs' = [reqs EXCEPT ![s] = Idle]
    /\ UNCHANGED <<lovelaceVars, tvVars>>
    /\ UNCHANGED <<tasks, errors, providers, viewRegistered, setupResult, chk>>

\* A GET arrives; get() never awaits.
Get_pops_provider ==
    /\ viewRegistered
    /\ \E name \in Names :
           /\ last' = GetHandler(providers, name)
           /\ providers' = [n \in DOMAIN providers \ {name} |-> providers[n]]
    /\ UNCHANGED <<lovelaceVars, tvVars>>
    /\ UNCHANGED <<tasks, errors, viewRegistered, setupResult, reqs, chk>>

Get ==
    /\ viewRegistered
    /\ \E name \in Names : last' = GetHandler(providers, name)
    /\ UNCHANGED <<lovelaceVars, tvVars>>
    /\ UNCHANGED <<tasks, errors, providers, viewRegistered, setupResult,
                   reqs, chk>>

---------------------------------------------------------------------------
(* The component: start-up, then requests.                                 *)

\* config_per_platform(config, DOMAIN): the p_type of each configured entry.
Configs == UNION {[1..n -> Platforms] : n \in 0..MaxEntries}

Init ==
    /\ \E c \in Configs : tasks = [e \in DOMAIN c |-> NewTask(c[e])]
    /\ errors = <<>>
    /\ providers = <<>>
    /\ viewRegistered = FALSE
    /\ setupResult = <<>>
    /\ reqs = [s \in Slots |-> Idle]
    /\ last = Idle
    /\ chk = <<>>
    /\ LovelaceNotSetUp
    /\ TvNotSetUp

Next ==
    \/ \E e \in Entries : PreparePlatform(e)
    \/ \E e \in Entries : GetEngine(e)
    \/ RegisterView
    \/ \E s \in Slots : Post(s)
    \/ \E s \in Slots : PostResume(s)
    \/ Get

Spec == Init /\ [][Next]_vars

---------------------------------------------------------------------------
(* Provider.check_metadata called directly, on any metadata.               *)

MetaSpace ==
    [lanugage : {s_en, s_de_de, <<>>}, format : {s_wav, s_ogg, <<>>},
     codec : {s_pcm, s_opus}, bitrate : {8, 16, 0},
     samplerate : {8000, 16000, 44100}]

InitCheck ==
    /\ tasks = <<>>
    /\ errors = <<>>
    /\ providers = <<>>
    /\ viewRegistered = FALSE
    /\ setupResult = <<>>
    /\ reqs = [s \in Slots |-> Idle]
    /\ last = Idle
    /\ chk \in [provider : {NewProvider(p) : p \in Platforms},
                metadata : MetaSpace, result : {<<>>}]
    /\ LovelaceNotSetUp
    /\ TvNotSetUp

CheckMetadata ==
    /\ chk.result = <<>>
    /\ chk' = [chk EXCEPT
                  !.result = <<check_metadata(chk.provider, chk.metadata)>>]
    /\ UNCHANGED <<lovelaceVars, tvVars>>
    /\ UNCHANGED <<tasks, errors, providers, viewRegistered, setupResult,
                   reqs, last>>

NextCheck == CheckMetadata

SpecCheck == InitCheck /\ [][NextCheck]_vars

---------------------------------------------------------------------------
(* Lovelace: homeassistant/components/lovelace/__init__.py.                *)
(* async_setup registers the default panel, takes the YAML dashboards one  *)
(* by one and then listens to the storage collection of dashboards.  The   *)
(* frontend's panel registry and the storage collection are services of    *)
(* the host; they appear as far as lovelace calls them.                    *)

MaxItems == 2    \* storage dashboard items the collection holds at a time

DOMAIN_LOVELACE == "lovelace"
MODE_YAML == "yaml"
MODE_STORAGE == "storage"
Modes == {MODE_YAML, MODE_STORAGE}

\* The dict key None of the default dashboard; no url path is equal to it.
NoneKey == "(None)"

\* Url paths of dashboards: the default panel's own and two others.
UrlPaths == {DOMAIN_LOVELACE, "dash-a", "dash-b"}

ItemIds == 1..MaxItems

\* m[k] = v, as a dict assignment does it.
DictSet(m, k, v) == [x \in (DOMAIN m) \cup {k} |-> IF x = k THEN v ELSE m[x]]

\* m without the key k.
DictDel(m, k) == [x \in (DOMAIN m) \ {k} |-> m[x]]

\* The config objects held in the dashboards map.  `item` is the id of the
\* storage item an object was built from, 0 for the others.
DefaultConfig(mode) == [kind |-> mode, url_path |-> NoneKey, item |-> 0]
LovelaceYAML(url_path) == [kind |-> MODE_YAML, url_path |-> url_path, item |-> 0]
LovelaceStorage(item_id, url_path) ==
    [kind |-> MODE_STORAGE, url_path |-> url_path, item |-> item_id]

\* A registered panel: its config {"mode": mode} and the dashboard config
\* its require_admin and sidebar arguments were taken from.
Panel(mode, conf) == [mode |-> mode, conf |-> conf]

\* frontend.async_register_built_in_panel(hass, DOMAIN, frontend_url_path=..,
\* update=..): a url path that is already registered is a ValueError unless
\* update is set.
async_register_built_in_panel(pnls, url_path, panel, update) ==
    IF ~update /\ url_path \in DOMAIN pnls
    THEN [value_error |-> TRUE, panels |-> pnls]
    ELSE [value_error |-> FALSE, panels |-> DictSet(pnls, url_path, panel)]

\* frontend.async_remove_panel(hass, url_path).
async_remove_panel(pnls, url_path) == DictDel(pnls, url_path)

\* _register_panel(hass, url_path, mode, config, update).
register_panel(pnls, url_path, mode, conf, update) ==
    async_register_built_in_panel(pnls, url_path, Panel(mode, conf), update)

\* What one dashboard operation did: the maps after it, whether it logged a
\* warning, whether _register_panel raised ValueError, whether it raised
\* KeyError itself, and the config object it called async_delete on.
Outcome(dash, pnls, warned, value_error, key_error, deleted) ==
    [dashboards |-> dash, panels |-> pnls, warned |-> warned,
     value_error |-> value_error, key_error |-> key_error, deleted |-> deleted]

\* One turn of the loop over the YAML dashboards of async_setup.
yaml_dashboard(dash, pnls, url_path) ==
    LET config == LovelaceYAML(url_path)
        written == DictSet(dash, url_path, config)
        r == register_panel(pnls, url_path, MODE_YAML, config, FALSE)
    IN  Outcome(written, r.panels, r.value_error, r.value_error, FALSE, <<>>)

CHANGE_ADDED == "added"
CHANGE_UPDATED == "updated"
CHANGE_REMOVED == "removed"

\* storage_dashboard_changed(change_type, item_id, item), with
\* url_path = item[CONF_URL_PATH].
storage_dashboard_changed(dash, pnls, change_type, item_id, url_path) ==
    IF change_type = CHANGE_REMOVED
    THEN LET removed == async_remove_panel(pnls, url_path)
         IN  IF url_path \in DOMAIN dash
             THEN Outcome(DictDel(dash, url_path), removed, FALSE, FALSE, FALSE,
                          <<dash[url_path]>>)
             ELSE Outcome(dash, removed, FALSE, FALSE, TRUE, <<>>)
    ELSE IF change_type = CHANGE_ADDED /\ url_path \in DOMAIN dash
    THEN Outcome(dash, pnls, TRUE, FALSE, FALSE, <<>>)
    ELSE LET item == LovelaceStorage(item_id, url_path)
             written == IF change_type = CHANGE_ADDED
                        THEN DictSet(dash, url_path, item) ELSE dash
             update == change_type # CHANGE_ADDED
             r == register_panel(pnls, url_path, MODE_STORAGE, item, update)
         IN  Outcome(written, r.panels, r.value_error, r.value_error, FALSE, <<>>)

\* The record of the operation that ran most recently.
Change(type, item_id, url_path, o) ==
    [type |-> type, item |-> item_id, url_path |-> url_path,
     warned |-> o.warned, value_error |-> o.value_error,
     key_error |-> o.key_error, deleted |-> o.deleted]

NoOutcome == Outcome(<<>>, <<>>, FALSE, FALSE, FALSE, <<>>)

\* async_setup up to the safe-mode test: the default panel is registered and
\* the dashboards map holds the default dashboard under None.
InitLovelace ==
    /\ tasks = <<>>
    /\ errors = <<>>
    /\ providers = <<>>
    /\ viewRegistered = FALSE
    /\ setupResult = <<>>
    /\ reqs = [s \in Slots |-> Idle]
    /\ last = Idle
    /\ chk = <<>>
    /\ TvNotSetUp
    /\ \E mode \in Modes :
          /\ dashboards = DictSet(<<>>, NoneKey, DefaultConfig(mode))
          /\ panels = async_register_built_in_panel(
                          <<>>, DOMAIN_LOVELACE,
                          Panel(mode, DefaultConfig(mode)), FALSE).panels
    /\ yaml_dashboards \in SUBSET UrlPaths
    /\ \E safe_mode \in BOOLEAN :
          lovelace_pc = IF safe_mode THEN "safe" ELSE "yaml"
    /\ collection = <<>>
    /\ change = Change("setup", 0, NoneKey, NoOutcome)
    /\ at_setup = <<>>

\* The loop takes the next YAML dashboard of the configuration.
SetupYamlDashboard(url_path) ==
    /\ lovelace_pc = "yaml"
    /\ url_path \in yaml_dashboards
    /\ LET o == yaml_dashboard(dashboards, panels, url_path)
       IN  /\ dashboards' = o.dashboards
           /\ panels' = o.panels
           /\ change' = Change(MODE_YAML, 0, url_path, o)
    /\ yaml_dashboards' = yaml_dashboards \ {url_path}
    /\ UNCHANGED <<collection, lovelace_pc, at_setup>>
    /\ UNCHANGED <<sttVars, tvVars>>

\* The loop is over: the listener is added to the collection.
SetupListen ==
    /\ lovelace_pc = "yaml"
    /\ yaml_dashboards = {}
    /\ lovelace_pc' = "listening"
    /\ at_setup' = [dashboards |-> dashboards, panels |-> panels]
    /\ change' = Change("listen", 0, NoneKey, NoOutcome)
    /\ UNCHANGED <<dashboards, panels, yaml_dashboards, collection>>
    /\ UNCHANGED <<sttVars, tvVars>>

\* The collection notifies the listener of one change of one item.
StorageChanged(change_type, item_id, url_path) ==
    /\ lovelace_pc = "listening"
    /\ IF change_type = CHANGE_ADDED
       THEN /\ item_id \notin DOMAIN collection
            /\ collection' = DictSet(collection, item_id, url_path)
       ELSE /\ item_id \in DOMAIN collection
            /\ url_path = collection[item_id]
            /\ collection' = IF change_type = CHANGE_REMOVED
                             THEN DictDel(collection, item_id) ELSE collection
    /\ LET o == storage_dashboard_changed(dashboards, panels, change_type,
                                          item_id, url_path)
       IN  /\ dashboards' = o.dashboards
           /\ panels' = o.panels
           /\ change' = Change(change_type, item_id, url_path, o)
    /\ UNCHANGED <<yaml_dashboards, lovelace_pc, at_setup>>
    /\ UNCHANGED <<sttVars, tvVars>>

NextLovelace ==
    \/ \E url_path \in UrlPaths : SetupYamlDashboard(url_path)
    \/ SetupListen
    \/ \E item_id \in ItemIds, url_path \in UrlPaths :
          StorageChanged(CHANGE_ADDED, item_id, url_path)
    \/ \E item_id \in ItemIds, url_path \in UrlPaths :
          StorageChanged(CHANGE_UPDATED, item_id, url_path)
    \/ \E item_id \in ItemIds, url_path \in UrlPaths :
          StorageChanged(CHANGE_REMOVED, item_id, url_path)

SpecLovelace == InitLovelace /\ [][NextLovelace]_vars

---------------------------------------------------------------------------
(* HomeKit television:                                                     *)
(* homeassistant/components/homekit_controller/media_player.py.            *)
(* Enum members are strings of their names.  The feature flags are single  *)
(* bits, so _features is the set of flags or-ed into it.                   *)

STATE_PLAYING == "playing"
STATE_PAUSED == "paused"
STATE_IDLE == "idle"

SUPPORT_PAUSE == "SUPPORT_PAUSE"
SUPPORT_PLAY == "SUPPORT_PLAY"
SUPPORT_STOP == "SUPPORT_STOP"

\* TargetMediaStateValues, and the RemoteKeyValues that matter: PLAY_PAUSE
\* and one other key.
TargetMediaStateValues == {"PLAY", "PAUSE", "STOP"}
RemoteKeyValues == {"PLAY_PAUSE", "SELECT"}

\* What the current-media-state characteristic can hold: nothing yet, a
\* member of CurrentMediaStateValues that HK_TO_HA_STATE maps, or another
\* value the accessory reports.
HomekitStates == {<<>>, <<"PLAYING">>, <<"PAUSED">>, <<"STOPPED">>, <<"UNKNOWN">>}

HK_TO_HA_STATE ==
    [PLAYING |-> STATE_PLAYING, PAUSED |-> STATE_PAUSED, STOPPED |-> STATE_IDLE]

\* HomeKitTelevision.__init__, before the characteristics are set up.
HomeKitTelevision(homekit_state) ==
    [homekit_state |-> homekit_state,
     features |-> {},
     supported_target_media_state |-> {},
     supported_remote_key |-> {},
     pc |-> "setup", done |-> {},
     command |-> "none", written |-> <<>>, key_error |-> FALSE]

\* _setup_target_media_state(char); clamped is clamp_enum_to_char(..).
setup_target_media_state(t, clamped) ==
    [t EXCEPT !.supported_target_media_state = clamped,
              !.features = t.features
                  \cup (IF "PAUSE" \in clamped THEN {SUPPORT_PAUSE} ELSE {})
                  \cup (IF "PLAY" \in clamped THEN {SUPPORT_PLAY} ELSE {})
                  \cup (IF "STOP" \in clamped THEN {SUPPORT_STOP} ELSE {})]

\* _setup_remote_key(char); clamped is clamp_enum_to_char(..).
setup_remote_key(t, clamped) ==
    [t EXCEPT !.supported_remote_key = clamped,
              !.features = t.features
                  \cup (IF "PLAY_PAUSE" \in clamped
                        THEN {SUPPORT_PAUSE, SUPPORT_PLAY} ELSE {})]

\* The property supported_features.
supported_features(t) == t.features

\* The property state: None, the mapped state, or KeyError.
state(t) ==
    IF t.homekit_state = <<>>
    THEN [key_error |-> FALSE, value |-> <<>>]
    ELSE IF t.homekit_state[1] \in DOMAIN HK_TO_HA_STATE
    THEN [key_error |-> FALSE, value |-> <<HK_TO_HA_STATE[t.homekit_state[1]]>>]
    ELSE [key_error |-> TRUE, value |-> <<>>]

\* One put_characteristics call: the characteristic and the value.
Put(char, value) == [char |-> char, value |-> value]

\* What a command did: the put_characteristics calls it made, or KeyError.
Sent(written) == [key_error |-> FALSE, written |-> written]
Raised == [key_error |-> TRUE, written |-> <<>>]

async_media_play(t) ==
    IF state(t).key_error THEN Raised
    ELSE IF state(t).value = <<STATE_PLAYING>> THEN Sent(<<>>)
    ELSE IF "PLAY" \in t.supported_target_media_state
    THEN Sent(<<Put("target-media-state", "PLAY")>>)
    ELSE IF "PLAY_PAUSE" \in t.supported_remote_key
    THEN Sent(<<Put("remote-key", "PLAY_PAUSE")>>)
    ELSE Sent(<<>>)

async_media_pause(t) ==
    IF state(t).key_error THEN Raised
    ELSE IF state(t).value = <<STATE_PAUSED>> THEN Sent(<<>>)
    ELSE IF "PAUSE" \in t.supported_target_media_state
    THEN Sent(<<Put("target-media-state", "PAUSE")>>)
    ELSE IF "PLAY_PAUSE" \in t.supported_remote_key
    THEN Sent(<<Put("remote-key", "PLAY_PAUSE")>>)
    ELSE Sent(<<>>)

async_media_stop_with_remote_key(t) ==
    IF state(t).key_error THEN Raised
    ELSE IF state(t).value = <<STATE_IDLE>> THEN Sent(<<>>)
    ELSE IF "STOP" \in t.supported_target_media_state
    THEN Sent(<<Put("target-media-state", "STOP")>>)
    ELSE IF "PLAY_PAUSE" \in t.supported_remote_key
    THEN Sent(<<Put("remote-key", "PLAY_PAUSE")>>)
    ELSE Sent(<<>>)

async_media_stop(t) ==
    IF state(t).key_error THEN Raised
    ELSE IF state(t).value = <<STATE_IDLE>> THEN Sent(<<>>)
    ELSE IF "STOP" \in t.supported_target_media_state
    THEN Sent(<<Put("target-media-state", "STOP")>>)
    ELSE Sent(<<>>)

InitTv ==
    /\ tasks = <<>>
    /\ errors = <<>>
    /\ providers = <<>>
    /\ viewRegistered = FALSE
    /\ setupResult = <<>>
    /\ reqs = [s \in Slots |-> Idle]
    /\ last = Idle
    /\ chk = <<>>
    /\ LovelaceNotSetUp
    /\ tv \in {HomeKitTelevision(h) : h \in HomekitStates}

\* The entity's set-up meets the target-media-state characteristic.
SetupTargetMediaState(clamped) ==
    /\ tv.pc = "setup"
    /\ "target-media-state" \notin tv.done
    /\ tv' = [setup_target_media_state(tv, clamped) EXCEPT
                 !.done = tv.done \cup {"target-media-state"}]
    /\ UNCHANGED <<sttVars, lovelaceVars>>

\* The entity's set-up meets the remote-key characteristic.
SetupRemoteKey(clamped) ==
    /\ tv.pc = "setup"
    /\ "remote-key" \notin tv.done
    /\ tv' = [setup_remote_key(tv, clamped) EXCEPT
                 !.done = tv.done \cup {"remote-key"}]
    /\ UNCHANGED <<sttVars, lovelaceVars>>

\* Set-up is over with the characteristics the service has.
SetupDone ==
    /\ tv.pc = "setup"
    /\ tv' = [tv EXCEPT !.pc = "ready"]
    /\ UNCHANGED <<sttVars, lovelaceVars>>

\* The accessory reports a new current-media-state.
CharacteristicUpdated(h) ==
    /\ tv.pc = "ready"
    /\ h # tv.homekit_state
    /\ tv' = [tv EXCEPT !.homekit_state = h, !.command = "none",
                        !.written = <<>>, !.key_error = FALSE]
    /\ UNCHANGED <<sttVars, lovelaceVars>>

\* A command of the entity runs; tv keeps what it did.
Command(name, r) ==
    /\ tv.pc = "ready"
    /\ tv' = [tv EXCEPT !.command = name, !.written = r.written,
                        !.key_error = r.key_error]
    /\ UNCHANGED <<sttVars, lovelaceVars>>

MediaPlay == Command("play", async_media_play(tv))
MediaPause == Command("pause", async_media_pause(tv))
MediaStop == Command("stop", async_media_stop(tv))

NextTv ==
    \/ \E clamped \in SUBSET TargetMediaStateValues : SetupTargetMediaState(clamped)
    \/ \E clamped \in SUBSET RemoteKeyValues : SetupRemoteKey(clamped)
    \/ SetupDone
    \/ \E h \in HomekitStates : CharacteristicUpdated(h)
    \/ MediaPlay
    \/ MediaPause
    \/ MediaStop

SpecTv == InitTv /\ [][NextTv]_vars

---------------------------------------------------------------------------
(* Properties.                                                             *)

\* v is an element of the list l.
InList(v, l) == \E i \in 1..Len(l) : l[i] = v

\* Every one of the five fields of metadata md is in provider p's list.
AllFieldsSupported(p, md) ==
    /\ InList(md.lanugage, p.supported_languages)
    /\ InList(md.format, p.supported_formats)
    /\ InList(md.codec, p.supported_codecs)
    /\ InList(md.bitrate, p.supported_bitrates)
    /\ InList(md.samplerate, p.supported_samplerates)

\* The fields of md that are not in p's list.
FieldsOutside(p, md) ==
    {f \in {"language", "format", "codec", "bitrate", "samplerate"} :
        \/ f = "language"   /\ ~InList(md.lanugage, p.supported_languages)
        \/ f = "format"     /\ ~InList(md.format, p.supported_formats)
        \/ f = "codec"      /\ ~InList(md.codec, p.supported_codecs)
        \/ f = "bitrate"    /\ ~InList(md.bitrate, p.supported_bitrates)
        \/ f = "samplerate" /\ ~InList(md.samplerate, p.supported_samplerates)}

Registered(name) == name \in DOMAIN providers

Pending == {s \in Slots : reqs[s] # Idle}

\* The call post() makes for request r in place s.
ExpectedCall(r) ==
    [provider |-> providers[r.name],
     metadata |-> MetadatFromHeader(r.header).md[1],
     stream |-> r.stream]

\* C1: check_metadata(M) returns true exactly when all five fields of M are
\* in the provider's capability lists, false as soon as one field is
\* outside its list, and it never raises.
C1_CheckMetadataIffAllSupported ==
    chk.result # <<>> =>
        /\ chk.result \in {<<TRUE>>, <<FALSE>>}
        /\ chk.result[1] <=> AllFieldsSupported(chk.provider, chk.metadata)

\* C1 witness: a call answered False for metadata of which only the
\* samplerate is outside the provider's list.
C1_Witness ==
    /\ chk.result = <<FALSE>>
    /\ FieldsOutside(chk.provider, chk.metadata) = {"samplerate"}

\* C2: parsing the header of the docstring yields format=wav, codec=pcm,
\* samplerate=16000, bitrate=16, language=de_de.
C2_DocHeaderParses ==
    (last.method = "POST" /\ Registered(last.name)
         /\ last.header = <<DocHeader>>) =>
        /\ last.err \in {"none", "HTTPNotImplemented"}
        /\ last.md = << [lanugage |-> s_de_de, format |-> s_wav,
                         codec |-> s_pcm, bitrate |-> 16,
                         samplerate |-> 16000] >>

\* C3: a POST whose provider name is not in the registry is answered 404
\* whatever its header is; the header is not parsed and no provider's
\* processing operation is invoked.
C3_UnknownProviderNotFound ==
    /\ (last.method = "POST" /\ ~Registered(last.name)) =>
           /\ last.status = 404
           /\ last.err = "HTTPNotFound"
           /\ last.md = <<>>
           /\ last.calls = <<>>
    /\ \A s \in Pending : Registered(reqs[s].name)

\* C3 witness: a 404 for an unknown name on a request without the header,
\* while a provider is registered.
C3_Witness ==
    /\ last.method = "POST" /\ ~Registered(last.name)
    /\ last.header = <<>>
    /\ last.status = 404
    /\ DOMAIN providers # {}

\* C4: a POST to a registered provider whose metadata has a field outside
\* the provider's capability lists is answered 501 and the provider's
\* async_process_audio_stream is not invoked for it.
C4_UnsupportedNotImplemented ==
    /\ (last.method = "POST" /\ Registered(last.name)
            /\ MetadatFromHeader(last.header).err = "none"
            /\ ~AllFieldsSupported(providers[last.name],
                                   MetadatFromHeader(last.header).md[1])) =>
           /\ last.status = 501
           /\ last.calls = <<>>
    /\ \A s \in Pending :
           /\ MetadatFromHeader(reqs[s].header).err = "none"
           /\ AllFieldsSupported(providers[reqs[s].name],
                                 MetadatFromHeader(reqs[s].header).md[1])

\* C4 witness: a 501 for metadata of which only the samplerate is outside
\* the provider's lists.
C4_Witness ==
    /\ last.method = "POST" /\ Registered(last.name)
    /\ last.status = 501
    /\ last.md # <<>>
    /\ FieldsOutside(providers[last.name], last.md[1]) = {"samplerate"}

\* C5: a POST to a registered provider with accepted metadata invokes the
\* processing operation exactly once, with that metadata and the request's
\* content stream; None gives 400, a str gives 200 with that str as body.
C5_AcceptedIsDispatched ==
    /\ \A s \in Pending :
           /\ Registered(reqs[s].name)
           /\ reqs[s].stream = s
           /\ reqs[s].calls = <<ExpectedCall(reqs[s])>>
    /\ (last.method = "POST" /\ Registered(last.name)
            /\ MetadatFromHeader(last.header).err = "none"
            /\ AllFieldsSupported(providers[last.name],
                                  MetadatFromHeader(last.header).md[1])) =>
           /\ last.calls = <<ExpectedCall(last)>>
           /\ last.returned = << <<>> >> =>
                  last.status = 400 /\ last.text = <<>>
           /\ \A t \in {"", "hello"} :
                  last.returned = << <<t>> >> =>
                      last.status = 200 /\ last.text = <<t>>

\* C5 witness: a 200 whose body is the empty str the provider returned.
C5_Witness ==
    /\ last.method = "POST"
    /\ last.returned = << <<"">> >>
    /\ last.status = 200
    /\ Len(last.calls) = 1

\* The dict get() hands to json_message for a provider of platform name.
DeclaredLists(name) ==
    [languages  |-> PlatformCaps(name).supported_languages,
     formats    |-> PlatformCaps(name).supported_formats,
     codecs     |-> PlatformCaps(name).supported_codecs,
     samplerate |-> PlatformCaps(name).supported_samplerates,
     bitrate    |-> PlatformCaps(name).supported_bitrates]

\* C6: a GET for a registered provider returns that provider's five
\* capability lists as declared, each under its own key, invokes nothing
\* and leaves the registry alone; a GET for an unregistered name is a 404.
C6_GetReturnsCapabilities ==
    /\ [](last.method = "GET" =>
              IF Registered(last.name)
              THEN /\ last.status = 200
                   /\ last.json = <<DeclaredLists(last.name)>>
                   /\ last.calls = <<>>
              ELSE /\ last.status = 404
                   /\ last.json = <<>>
                   /\ last.calls = <<>>)
    /\ [][(last' # last /\ last'.method = "GET") =>
              (providers' = providers /\ reqs' = reqs)]_vars

\* C6 witness: a GET answered with the lists of a registered provider while
\* another name is not registered.
C6_Witness ==
    /\ last.method = "GET" /\ Registered(last.name)
    /\ last.status = 200
    /\ last.json # <<>>
    /\ last.json[1].samplerate # last.json[1].bitrate
    /\ DOMAIN providers # Platforms

Succeeded == {e \in Entries : tasks[e].pc = "ok"}

\* C7: while async_setup runs, the registry holds exactly the providers of
\* the entries whose set-up has succeeded, each under its platform name,
\* whatever subset has failed; no entry's engine is asked for twice;
\* failures never keep async_setup from going on; and when async_setup
\* returns it returns True with the view registered on that registry.
C7_PartialSetup ==
    /\ [](setupResult = <<>> =>
              /\ \A e \in Entries : tasks[e].engine_calls <= 1
              /\ DOMAIN providers = {tasks[e].p_type : e \in Succeeded}
              /\ \A n \in DOMAIN providers :
                     providers[n] = [NewProvider(n) EXCEPT !.name = <<n>>]
              /\ (\A e \in Entries : tasks[e].pc \in TaskFinal)
                     => ENABLED RegisterView)
    /\ [][(setupResult = <<>> /\ setupResult' # <<>>) =>
              /\ \A e \in Entries : tasks[e].pc \in TaskFinal
              /\ setupResult' = <<TRUE>>
              /\ viewRegistered'
              /\ providers' = providers]_vars

\* C7 witness: set-up returned True after the failure of one platform's
\* engine was logged, and exactly the other platform is registered.
C7_Witness ==
    /\ setupResult = <<TRUE>>
    /\ viewRegistered
    /\ errors = <<"demo">>
    /\ DOMAIN providers = {"cloud"}

\* C8: the set-up tasks run interleaved, and the view is registered, and a
\* request handled, only when every set-up task has finished.
C8_ViewAfterAllTasks ==
    /\ []((viewRegistered \/ last # Idle \/ Pending # {}) =>
              /\ viewRegistered
              /\ \A e \in Entries : tasks[e].pc \in TaskFinal)
    /\ [][(~viewRegistered /\ viewRegistered') =>
              \A e \in Entries : tasks[e].pc \in TaskFinal]_vars

\* C8 witness: two platforms were set up side by side, and a request has
\* been answered from the registry holding both.
C8_Witness ==
    /\ viewRegistered
    /\ DOMAIN providers = Platforms
    /\ tasks = <<>>
    /\ last.status = 200

\* C9: once the view is registered no step changes the registry; a step
\* touches at most one suspended request, and the response that ends a
\* suspended request is that request's own (its name, header, metadata,
\* stream and call), whatever the other requests do.
C9_RegistryReadOnly ==
    [][viewRegistered =>
          /\ viewRegistered'
          /\ providers' = providers
          /\ \A s, t \in Slots :
                 (s # t /\ reqs'[s] # reqs[s]) => reqs'[t] = reqs[t]
          /\ \A s \in Slots :
                 (reqs[s] # Idle /\ reqs'[s] # reqs[s]) =>
                     /\ reqs'[s] = Idle
                     /\ last'.method = "POST"
                     /\ last'.name = reqs[s].name
                     /\ last'.header = reqs[s].header
                     /\ last'.stream = reqs[s].stream
                     /\ last'.md = reqs[s].md
                     /\ last'.calls = reqs[s].calls]_vars

\* C9 witness: two requests to different providers are suspended at the
\* same time after a GET was answered.
C9_Witness ==
    /\ reqs[1] # Idle /\ reqs[2] # Idle
    /\ reqs[1].name # reqs[2].name
    /\ last.method = "GET" /\ last.status = 200

\* A segment that does not give a metadata field: its key is no attribute
\* name, or its value for bitrate or samplerate is no integer.
BadSegment(seg) ==
    LET k == PartitionHead(seg, "=")
    IN  \/ k \notin FieldNames
        \/ k \in {s_bitrate, s_samplerate}
               /\ PyInt(PartitionTail(seg, "/")) = <<>>

Malformed(header) ==
    \/ header = <<>>
    \/ \E i \in 1..Len(Split(header[1], ";")) :
           BadSegment(Split(header[1], ";")[i])

\* C10: a POST to a registered provider whose header is missing or has a
\* segment that cannot be parsed into a metadata field gets no success
\* response and the provider's processing operation is not invoked.
C10_MalformedHeaderFails ==
    /\ (last.method = "POST" /\ Registered(last.name)
            /\ Malformed(last.header)) =>
           /\ last.status \notin {200}
           /\ last.calls = <<>>
    /\ \A s \in Pending : ~Malformed(reqs[s].header)

---------------------------------------------------------------------------
(* Lovelace properties.                                                    *)

\* The step just taken met a url path conflict: a YAML dashboard whose panel
\* registration raised ValueError, or a storage dashboard ADDED or UPDATED
\* whose url path was in the dashboards map already or whose panel
\* registration raised ValueError.
ConflictStep ==
    \/ change'.type = MODE_YAML /\ change'.value_error
    \/ /\ change'.type \in {CHANGE_ADDED, CHANGE_UPDATED}
       /\ \/ change'.url_path \in DOMAIN dashboards
          \/ change'.value_error

\* C11: an operation that meets a url path conflict logs a warning and is
\* skipped: the dashboards map and the registered panels are after it what
\* they were before it, and set-up or listening goes on with the next
\* dashboard or change.
C11_ConflictIsSkipped ==
    [][ConflictStep =>
          /\ change'.warned
          /\ dashboards' = dashboards
          /\ panels' = panels
          /\ lovelace_pc' = lovelace_pc]_vars

\* The config object and the panel that ADDED of the storage item of the
\* step just taken creates.
ItemOfStep == LovelaceStorage(change'.item, change'.url_path)

\* C12: whatever storage dashboard changes arrive, the default dashboard and
\* the YAML dashboards stay in the dashboards map as set-up left them, the
\* panels set-up registered stay registered, async_delete is never called on
\* one of these dashboards, and a REMOVED change takes away no entry and no
\* panel other than the ones ADDED of the same storage item created.
C12_SetupDashboardsSurvive ==
    /\ [](lovelace_pc = "listening" =>
            /\ \A k \in DOMAIN at_setup.dashboards :
                  k \in DOMAIN dashboards /\ dashboards[k] = at_setup.dashboards[k]
            /\ \A u \in DOMAIN at_setup.panels :
                  u \in DOMAIN panels /\ panels[u] = at_setup.panels[u]
            /\ \A i \in 1..Len(change.deleted) :
                  \A k \in DOMAIN at_setup.dashboards :
                     change.deleted[i] # at_setup.dashboards[k])
    /\ [][change'.type = CHANGE_REMOVED =>
            /\ \A k \in (DOMAIN dashboards) \ (DOMAIN dashboards') :
                  dashboards[k] = ItemOfStep
            /\ \A u \in (DOMAIN panels) \ (DOMAIN panels') :
                  panels[u] = Panel(MODE_STORAGE, ItemOfStep)]_vars

---------------------------------------------------------------------------
(* HomeKit television properties.                                          *)

Commands == {"play", "pause", "stop"}

\* The state a command aims at, its own target-media-state value and its
\* feature flag.
TargetState == [play |-> STATE_PLAYING, pause |-> STATE_PAUSED, stop |-> STATE_IDLE]
OwnValue == [play |-> "PLAY", pause |-> "PAUSE", stop |-> "STOP"]
OwnFlag == [play |-> SUPPORT_PLAY, pause |-> SUPPORT_PAUSE, stop |-> SUPPORT_STOP]

\* The current-media-state the entity reads is None or one of the three
\* mapped states.
Readable(t) == t.homekit_state = <<>> \/ t.homekit_state[1] \in DOMAIN HK_TO_HA_STATE

\* The entity's state is the target of command c.
AtTarget(t, c) ==
    /\ t.homekit_state # <<>>
    /\ t.homekit_state[1] \in DOMAIN HK_TO_HA_STATE
    /\ HK_TO_HA_STATE[t.homekit_state[1]] = TargetState[c]

\* The writes the rule of the three commands allows for command c.
AllowedWrites(t, c) ==
    IF AtTarget(t, c) THEN <<>>
    ELSE IF OwnValue[c] \in t.supported_target_media_state
    THEN <<[char |-> "target-media-state", value |-> OwnValue[c]]>>
    ELSE IF c # "stop" /\ "PLAY_PAUSE" \in t.supported_remote_key
    THEN <<[char |-> "remote-key", value |-> "PLAY_PAUSE"]>>
    ELSE <<>>

\* C13: play, pause and stop send no write when the state is the command's
\* target already; otherwise at most one write: the command's own value to
\* target-media-state when it is supported, else (play and pause) PLAY_PAUSE
\* to remote-key when that is supported, else none.  Stop never writes
\* remote-key, and a write is sent only for a command whose flag is in
\* supported_features.
C13_CommandWrites ==
    tv.command \in Commands =>
       /\ Len(tv.written) <= 1
       /\ AtTarget(tv, tv.command) => tv.written = <<>>
       /\ tv.written \in {<<>>, AllowedWrites(tv, tv.command)}
       /\ Readable(tv) => tv.written = AllowedWrites(tv, tv.command)
       /\ tv.command = "stop" =>
             \A i \in 1..Len(tv.written) : tv.written[i].char # "remote-key"
       /\ tv.written # <<>> => OwnFlag[tv.command] \in supported_features(tv)

\* Pause fell back to the remote key: the state is not paused, PAUSE is not
\* a supported target value, PLAY_PAUSE is a supported key.
C13_Witness ==
    /\ tv.command = "pause"
    /\ tv.homekit_state = <<"PLAYING">>
    /\ "PAUSE" \notin tv.supported_target_media_state
    /\ "STOP" \in tv.supported_target_media_state
    /\ tv.written = <<[char |-> "remote-key", value |-> "PLAY_PAUSE"]>>

=============================================================================
